---- MODULE Spec2Model ----
(***************************************************************************)
(* Session-scoped chat relay (application.py): GET / assigns a session id, *)
(* POST /chat loads the session's history from the DynamoDB table, calls   *)
(* the generation service, appends the turn pair and saves the history.    *)
(*                                                                         *)
(* Strings are sequences of characters (each character a TLA+ string), so  *)
(* that JSON escaping is computed.  Values that Python code inspects       *)
(* dynamically (the request's prompt, the upstream response) are tagged    *)
(* JSON values: Null, Num, Str, List, Dict.                                *)
(***************************************************************************)
EXTENDS Integers, Sequences, FiniteSets, TLC

\* ------------------------------------------------------------------------
\* Bounds
\* ------------------------------------------------------------------------
MaxChats == 2      \* accepted POST /chat requests in one behaviour
MaxLen == 2        \* longest history drawn as an input of a pure function

\* ------------------------------------------------------------------------
\* JSON / Python values
\* ------------------------------------------------------------------------
Null == [t |-> "null"]
Num(n) == [t |-> "num", v |-> n]
Str(s) == [t |-> "str", v |-> s]
List(s) == [t |-> "list", v |-> s]
Dict(f) == [t |-> "dict", v |-> f]
EmptyDict == [t |-> "dict", v |-> << >>]

\* Python truthiness: None, 0, "", [] and {} are false.
Truthy(x) ==
  CASE x.t = "null" -> FALSE
    [] x.t = "num"  -> x.v # 0
    [] x.t = "str"  -> Len(x.v) > 0
    [] x.t = "list" -> Len(x.v) > 0
    [] x.t = "dict" -> DOMAIN x.v # {}

\* The result of evaluating a Python expression: a value or a raised exception.
Ok(x) == [exc |-> "none", v |-> x]
Raise(e) == [exc |-> e, v |-> Null]

\* x.get(k): only a dict has .get; a missing key gives None.
PyGet(x, k) ==
  IF x.t = "dict"
    THEN IF k \in DOMAIN x.v THEN Ok(x.v[k]) ELSE Ok(Null)
    ELSE Raise("AttributeError")

\* x[0] on a truthy x: first element of a list, first character of a str;
\* a dict has no key 0 (JSON keys are strings), a number is not subscriptable.
PyIndex0(x) ==
  CASE x.t = "list" -> IF Len(x.v) > 0 THEN Ok(x.v[1]) ELSE Raise("IndexError")
    [] x.t = "str"  -> IF Len(x.v) > 0 THEN Ok(Str(<<x.v[1]>>)) ELSE Raise("IndexError")
    [] x.t = "dict" -> Raise("KeyError")
    [] OTHER        -> Raise("TypeError")

\* ------------------------------------------------------------------------
\* Turns and histories
\* ------------------------------------------------------------------------
USER == Str(<<"user">>)
MODEL == Str(<<"model">>)
Turn(role, text) == [role |-> role, text |-> text]

\* ------------------------------------------------------------------------
\* json.dumps / json.loads of a history (a list of {"role":..,"text":..})
\* ------------------------------------------------------------------------
QUOTE == "\""
BSLASH == "\\"
COMMA == ", "
COLON == ": "

\* json.dumps without escaping.
EscapeChars_raw(s) == s

RECURSIVE EscapeChars(_)
EscapeChars(s) ==
  IF s = << >> THEN << >>
  ELSE (IF Head(s) = QUOTE THEN <<BSLASH, QUOTE>>
        ELSE IF Head(s) = BSLASH THEN <<BSLASH, BSLASH>>
        ELSE <<Head(s)>>) \o EscapeChars(Tail(s))

\* Every scalar of a turn is a string in this model.
DumpScalar(x) == <<QUOTE>> \o EscapeChars(x.v) \o <<QUOTE>>

DumpTurn(turn) ==
  <<"{">> \o DumpScalar(Str(<<"role">>)) \o <<COLON>> \o DumpScalar(turn.role)
      \o <<COMMA>> \o DumpScalar(Str(<<"text">>)) \o <<COLON>> \o DumpScalar(turn.text)
      \o <<"}">>

RECURSIVE DumpTurns(_)
DumpTurns(h) ==
  IF h = << >> THEN << >>
  ELSE IF Len(h) = 1 THEN DumpTurn(h[1])
  ELSE DumpTurn(h[1]) \o <<COMMA>> \o DumpTurns(Tail(h))

json_dumps(history) == <<"[">> \o DumpTurns(history) \o <<"]">>

\* The parser works on (text, position) and returns [ok, v, next].
PFail == [ok |-> FALSE, v |-> Null, next |-> 0]
POk(x, n) == [ok |-> TRUE, v |-> x, next |-> n]
At(s, i) == IF i <= Len(s) THEN s[i] ELSE "<eof>"

\* Characters of a string body starting at i, up to the closing quote.
RECURSIVE ParseChars(_, _, _)
ParseChars(s, i, acc) ==
  IF i > Len(s) THEN PFail
  ELSE IF s[i] = QUOTE THEN POk(Str(acc), i + 1)
  ELSE IF s[i] = BSLASH
    THEN IF i + 1 <= Len(s) /\ s[i + 1] \in {QUOTE, BSLASH}
           THEN ParseChars(s, i + 2, Append(acc, s[i + 1]))
           ELSE PFail
  ELSE ParseChars(s, i + 1, Append(acc, s[i]))

ParseScalar(s, i) ==
  IF At(s, i) = QUOTE THEN ParseChars(s, i + 1, << >>) ELSE PFail

\* "key": scalar, where k is the parsed key
ParseMemberValue(s, k, key) ==
  IF ~k.ok \/ k.v # Str(<<key>>) \/ At(s, k.next) # COLON THEN PFail
  ELSE ParseScalar(s, k.next + 1)

ParseMember(s, i, key) == ParseMemberValue(s, ParseScalar(s, i), key)

\* {"role": r, "text": x}
ParseTurnEnd(s, r, x) ==
  IF ~x.ok \/ At(s, x.next) # "}" THEN PFail ELSE POk(Turn(r.v, x.v), x.next + 1)

ParseTurnText(s, r) ==
  IF ~r.ok \/ At(s, r.next) # COMMA THEN PFail
  ELSE ParseTurnEnd(s, r, ParseMember(s, r.next + 1, "text"))

ParseTurn(s, i) ==
  IF At(s, i) # "{" THEN PFail ELSE ParseTurnText(s, ParseMember(s, i + 1, "role"))

\* The turns of a list from position i on; e is the turn parsed at i.
RECURSIVE ParseTurns(_, _, _)
RECURSIVE ParseMore(_, _, _)
ParseMore(s, e, acc) ==
  IF ~e.ok THEN PFail
  ELSE IF At(s, e.next) = COMMA THEN ParseTurns(s, e.next + 1, Append(acc, e.v))
  ELSE IF At(s, e.next) = "]" THEN POk(Append(acc, e.v), e.next + 1)
  ELSE PFail

ParseTurns(s, i, acc) == ParseMore(s, ParseTurn(s, i), acc)

ParseList(s) ==
  IF At(s, 1) # "[" THEN PFail
  ELSE IF At(s, 2) = "]" THEN POk(<< >>, 3)
  ELSE ParseTurns(s, 2, << >>)

\* The whole text must be one document.
ParseDocument(s, p) ==
  IF p.ok /\ p.next = Len(s) + 1 THEN Ok(p.v) ELSE Raise("JSONDecodeError")

\* json.loads on the texts this model stores: the output of json.dumps on a
\* history, or text that is not JSON at all (JSONDecodeError).
json_loads(s) == ParseDocument(s, ParseList(s))

\* ------------------------------------------------------------------------
\* The DynamoDB table: one item per SessionID
\* ------------------------------------------------------------------------
SessionIds == {"s1", "s2"}
NoSession == "None"

\* An item is its ConversationData attribute (HasData: the attribute exists).
\* The Timestamp attribute is written by put_item and read by nothing.
NoItem == [Item |-> FALSE, HasData |-> FALSE, ConversationData |-> << >>]

\* What boto3 can do on a call: succeed, raise ClientError (the service
\* answered with an error), or raise another botocore exception that is not
\* a ClientError (EndpointConnectionError, NoCredentialsError, ...).
StoreOutcomes == {"ok", "ClientError", "BotoCoreError"}

\* response['Item'] read without the "in" test of line 50.
LoadResponse_unchecked(response) ==
  IF response.Item /\ response.HasData
    THEN [exc |-> "none", v |-> json_loads(response.ConversationData).v, read |-> TRUE]
    ELSE [exc |-> "KeyError", v |-> << >>, read |-> TRUE]

\* Line 51: return json.loads(...), a JSONDecodeError is not a ClientError.
LoadParsed(parsed) ==
  IF parsed.exc = "none"
    THEN [exc |-> "none", v |-> parsed.v, read |-> TRUE]
    ELSE [exc |-> parsed.exc, v |-> << >>, read |-> TRUE]

\* Lines 50-53: the answer of get_item.
LoadResponse(response) ==
  IF response.Item /\ response.HasData
    THEN LoadParsed(json_loads(response.ConversationData))
    ELSE [exc |-> "none", v |-> << >>, read |-> TRUE]

\* get_item on one fixed key whatever the session id.
load_conversation_history_oneKey(tbl, conversation_tbl, session_id, outcome) ==
  IF conversation_tbl = "None" THEN [exc |-> "none", v |-> << >>, read |-> FALSE]
  ELSE IF outcome = "ClientError" THEN [exc |-> "none", v |-> << >>, read |-> TRUE]
  ELSE IF outcome # "ok" THEN [exc |-> outcome, v |-> << >>, read |-> TRUE]
  ELSE LoadResponse(tbl["s1"])

\* load_conversation_history: [exc, v, read] where read tells whether
\* get_item was called.  The table is only read, never written.
load_conversation_history(tbl, conversation_tbl, session_id, outcome) ==
  IF conversation_tbl = "None" THEN [exc |-> "none", v |-> << >>, read |-> FALSE]
  ELSE IF outcome = "ClientError" THEN [exc |-> "none", v |-> << >>, read |-> TRUE]
  ELSE IF outcome # "ok" THEN [exc |-> outcome, v |-> << >>, read |-> TRUE]
  ELSE LoadResponse(IF session_id \in DOMAIN tbl THEN tbl[session_id] ELSE NoItem)

\* The last two turns appended to what the item holds, instead of the item
\* being replaced.
save_conversation_history_merge(tbl, conversation_tbl, session_id, history, outcome) ==
  IF conversation_tbl = "None" THEN [exc |-> "none", table |-> tbl, wrote |-> FALSE]
  ELSE IF outcome = "ClientError" THEN [exc |-> "none", table |-> tbl, wrote |-> TRUE]
  ELSE IF outcome # "ok" THEN [exc |-> outcome, table |-> tbl, wrote |-> TRUE]
  ELSE [exc |-> "none", wrote |-> TRUE,
        table |-> [tbl EXCEPT ![session_id] =
                     [Item |-> TRUE, HasData |-> TRUE,
                      ConversationData |->
                        json_dumps((IF tbl[session_id].HasData
                                      THEN json_loads(tbl[session_id].ConversationData).v
                                      ELSE << >>)
                                   \o SubSeq(history, Len(history) - 1, Len(history)))]]]

\* save_conversation_history: [exc, table, wrote] where wrote tells whether
\* put_item was called.  put_item replaces the whole item.
save_conversation_history(tbl, conversation_tbl, session_id, history, outcome) ==
  IF conversation_tbl = "None" THEN [exc |-> "none", table |-> tbl, wrote |-> FALSE]
  ELSE IF outcome = "ClientError" THEN [exc |-> "none", table |-> tbl, wrote |-> TRUE]
  ELSE IF outcome # "ok" THEN [exc |-> outcome, table |-> tbl, wrote |-> TRUE]
  ELSE [exc |-> "none", wrote |-> TRUE,
        table |-> [tbl EXCEPT ![session_id] =
                     [Item |-> TRUE, HasData |-> TRUE,
                      ConversationData |-> json_dumps(history)]]]

\* ------------------------------------------------------------------------
\* The generation service
\* ------------------------------------------------------------------------
MSG_NO_KEY == <<"ERROR: AI Key not configured. Check Elastic Beanstalk environment variables.">>
MSG_UNUSUAL == <<"Sorry, I received an unusual response from the AI model.">>
MSG_NETWORK == <<"Sorry, the AI service failed to respond due to a network error on the EC2 instance.">>
MSG_UNREADABLE == <<"Sorry, I received an unreadable response from the AI model.">>
system_prompt == <<"You are a concise, helpful, and friendly chatbot running on an AWS EC2 instance. You must remember the user's name and previous questions.">>

\* Lines 86-92: the stored turns in the API's format, then the new prompt.
RECURSIVE api_history_of(_)
api_history_of(history) ==
  IF history = << >> THEN << >>
  ELSE <<[role |-> Head(history).role, parts |-> <<[text |-> Head(history).text]>>]>>
         \o api_history_of(Tail(history))

\* The new prompt appended to the caller's list instead of a copy.
buildRequest_aliased(user_prompt, history) ==
  [payload |-> [contents |-> Append(api_history_of(history),
                                    [role |-> USER, parts |-> <<[text |-> user_prompt]>>]),
                systemInstruction |-> [parts |-> <<[text |-> Str(system_prompt)]>>],
                tools |-> <<"google_search">>],
   history |-> Append(history, Turn(USER, user_prompt))]

\* Lines 85-101: [payload, history]; history is the caller's list after the
\* payload was built (Python passes the list by reference).
buildRequest(user_prompt, history) ==
  [payload |-> [contents |-> Append(api_history_of(history),
                                    [role |-> USER, parts |-> <<[text |-> user_prompt]>>]),
                systemInstruction |-> [parts |-> <<[text |-> Str(system_prompt)]>>],
                tools |-> <<"google_search">>],
   history |-> history]

\* The text returned without the emptiness test of line 117.
ReplyText_unchecked(text) ==
  IF text.exc # "none" THEN Str(MSG_UNREADABLE) ELSE text.v

\* Lines 114-123 and 128-130: navigate result to candidates[0].content.parts[0].text.
\* Each step takes the evaluation of the previous one; any exception raised
\* on the way is caught by "except Exception".
ReplyText(text) ==
  IF text.exc # "none" THEN Str(MSG_UNREADABLE)
  ELSE IF ~Truthy(text.v) THEN Str(MSG_UNUSUAL)
  ELSE text.v

ReplyPart(p0) ==
  IF p0.exc # "none" THEN Str(MSG_UNREADABLE) ELSE ReplyText(PyGet(p0.v, "text"))

ReplyParts(parts) ==
  IF parts.exc # "none" THEN Str(MSG_UNREADABLE)
  ELSE IF ~Truthy(parts.v) THEN Str(MSG_UNUSUAL)
  ELSE ReplyPart(PyIndex0(parts.v))

ReplyContent(content) ==
  IF content.exc # "none" THEN Str(MSG_UNREADABLE)
  ELSE IF ~Truthy(content.v) THEN Str(MSG_UNUSUAL)
  ELSE ReplyParts(PyGet(content.v, "parts"))

ReplyCandidate(c0) ==
  IF c0.exc # "none" THEN Str(MSG_UNREADABLE) ELSE ReplyContent(PyGet(c0.v, "content"))

ReplyCandidates(cands) ==
  IF cands.exc # "none" THEN Str(MSG_UNREADABLE)
  ELSE IF ~Truthy(cands.v) THEN Str(MSG_UNUSUAL)
  ELSE ReplyCandidate(PyIndex0(cands.v))

extractReply(result) == ReplyCandidates(PyGet(result, "candidates"))

NoPayload == [contents |-> << >>, systemInstruction |-> [parts |-> << >>], tools |-> << >>]

\* Lines 103-130: the POST, then the reply text for what it did.
ReplyOf(upstream) ==
  CASE upstream.kind = "ok" -> extractReply(upstream.result)
    [] upstream.kind = "RequestException" -> Str(MSG_NETWORK)
    [] OTHER -> Str(MSG_UNREADABLE)

AiCalled(built, upstream) ==
  [text |-> ReplyOf(upstream), history |-> built.history, called |-> TRUE,
   payload |-> built.payload]

\* get_ai_response: [text, history, called, payload].  upstream is what the
\* POST does: [kind |-> "ok", result |-> json], or kind "RequestException"
\* (timeout, connection error, HTTP error status from raise_for_status), or
\* kind "Exception" (any other exception, e.g. a body that is not JSON with a
\* requests version whose JSONDecodeError is a plain ValueError).
get_ai_response(user_prompt, history, api_key, upstream) ==
  IF ~api_key
    THEN [text |-> Str(MSG_NO_KEY), history |-> history, called |-> FALSE, payload |-> NoPayload]
    ELSE AiCalled(buildRequest(user_prompt, history), upstream)

\* Only the model's turn appended.
appendTurns_modelOnly(history, user_prompt, ai_response_text) ==
  Append(history, Turn(MODEL, ai_response_text))

\* The pair appended in the wrong order.
appendTurns_swapped(history, user_prompt, ai_response_text) ==
  Append(Append(history, Turn(MODEL, ai_response_text)), Turn(USER, user_prompt))

\* Lines 161-163: the turn pair is appended to the loaded list.
appendTurns(history, user_prompt, ai_response_text) ==
  Append(Append(history, Turn(USER, user_prompt)), Turn(MODEL, ai_response_text))

\* Only the session id tested.
MissingField_sessionOnly(user_prompt, session_id) == session_id = NoSession

\* Line 152: "not user_prompt or not session_id".
MissingField(user_prompt, session_id) ==
  ~Truthy(user_prompt) \/ session_id = NoSession

\* ------------------------------------------------------------------------
\* State
\* ------------------------------------------------------------------------
Clients == {"c1", "c2"}
Reqs == {"r1", "r2"}

VARIABLES
  store,               \* the table's items, by SessionID
  conversation_table,  \* "Table", or "None" when initialisation failed (line 36)
  GEMINI_API_KEY,      \* whether the environment variable is set (line 16)
  session,             \* Flask session cookie of each client: its session_id
  req,                 \* the POST /chat requests being handled
  nchat,               \* accepted POST /chat requests so far, by session
  fn                   \* a direct call of one function: operation, inputs, output

vars == <<store, conversation_table, GEMINI_API_KEY, session, req, nchat, fn>>

IdleReq ==
  [pc |-> "idle", session_id |-> NoSession, user_prompt |-> Null, history |-> << >>,
   ai_response_text |-> Null, payload |-> NoPayload, trace |-> << >>,
   response |-> [status |-> 0, key |-> "none", text |-> Null]]

FnIdle == [op |-> "none", stage |-> "none"]

Init ==
  /\ store = [s \in SessionIds |-> NoItem]
  /\ conversation_table \in {"Table", "None"}
  /\ GEMINI_API_KEY \in BOOLEAN
  /\ session = [c \in Clients |-> NoSession]
  /\ req = [r \in Reqs |-> IdleReq]
  /\ nchat = [s \in SessionIds |-> 0]
  /\ fn = FnIdle

\* ------------------------------------------------------------------------
\* Inputs
\* ------------------------------------------------------------------------
Prompts == {<<"h", "i">>, <<QUOTE, BSLASH>>}
Bodies == {EmptyDict, Dict([prompt |-> Str(<< >>)])} \cup {Dict([prompt |-> Str(p)]) : p \in Prompts}

GoodResult(text) ==
  Dict([candidates |-> List(<<Dict([content |-> Dict([parts |-> List(<<Dict([text |-> text])>>)])])>>)])

\* What the POST to the generation service can do: a well-formed answer, an
\* answer without candidates, an answer that is a JSON list, a timeout or an
\* HTTP error status, a body that is not JSON.
Upstreams ==
  {[kind |-> "ok", result |-> GoodResult(Str(<<"o", "k">>))],
   [kind |-> "ok", result |-> EmptyDict],
   [kind |-> "ok", result |-> List(<< >>)],
   [kind |-> "RequestException", result |-> Null],
   [kind |-> "Exception", result |-> Null]}

\* The two outcomes used where requests overlap.
UpstreamsShort == {u \in Upstreams : u.kind = "RequestException" \/ u.result = GoodResult(Str(<<"o", "k">>))}

RECURSIVE SumOver(_, _)
SumOver(f, S) ==
  IF S = {} THEN 0 ELSE LET x == CHOOSE y \in S : TRUE IN f[x] + SumOver(f, S \ {x})

\* ------------------------------------------------------------------------
\* Routes
\* ------------------------------------------------------------------------
\* GET / that assigns a fresh uuid4 on every visit.
home_always(c) ==
  /\ fn.op = "none"
  /\ \E id \in SessionIds :
       /\ \A c2 \in Clients : session[c2] # id
       /\ session' = [session EXCEPT ![c] = id]
  /\ UNCHANGED <<store, conversation_table, GEMINI_API_KEY, req, nchat, fn>>

\* GET /: a client without a session_id gets a fresh uuid4.
home(c) ==
  /\ fn.op = "none"
  /\ IF session[c] = NoSession
       THEN \E id \in SessionIds :
              /\ \A c2 \in Clients : session[c2] # id
              /\ session' = [session EXCEPT ![c] = id]
       ELSE session' = session
  /\ UNCHANGED <<store, conversation_table, GEMINI_API_KEY, req, nchat, fn>>

\* Lines 152-153, and the handler's locals when the request is accepted.
Accept(user_prompt, session_id) ==
  IF MissingField(user_prompt, session_id)
    THEN [IdleReq EXCEPT !.pc = "done", !.session_id = session_id,
                         !.user_prompt = user_prompt,
                         !.response = [status |-> 400, key |-> "error",
                                       text |-> Str(<<"Missing prompt or session ID">>)]]
    ELSE [IdleReq EXCEPT !.pc = "load", !.session_id = session_id,
                         !.user_prompt = user_prompt]

\* POST /chat, lines 148-153: read the body and the cookie, reject a
\* request without prompt or session_id.
Begin(r, q) ==
  /\ q.pc = "load" => SumOver(nchat, SessionIds) < MaxChats
  /\ req' = [req EXCEPT ![r] = q]
  /\ nchat' = IF q.pc = "load" THEN [nchat EXCEPT ![q.session_id] = @ + 1] ELSE nchat

chat(r, c, data) ==
  /\ fn.op = "none"
  /\ req[r].pc = "idle"
  /\ Begin(r, Accept(PyGet(data, "prompt").v, session[c]))
  /\ UNCHANGED <<store, conversation_table, GEMINI_API_KEY, session, fn>>

\* An exception that leaves chat() makes Flask answer 500.
Crash(q, e) ==
  [q EXCEPT !.pc = "done", !.response = [status |-> 500, key |-> e, text |-> Null]]

Traced(q, called, call) ==
  IF called THEN [q EXCEPT !.trace = Append(q.trace, call)] ELSE q

\* Line 156: history = load_conversation_history(session_id)
Loaded(q, res) ==
  IF res.exc # "none"
    THEN Crash(Traced(q, res.read, "get_item"), res.exc)
    ELSE [Traced(q, res.read, "get_item") EXCEPT !.pc = "ai", !.history = res.v]

load(r, outcome) ==
  /\ req[r].pc = "load"
  /\ req' = [req EXCEPT ![r] =
               Loaded(req[r], load_conversation_history(store, conversation_table,
                                                        req[r].session_id, outcome))]
  /\ UNCHANGED <<store, conversation_table, GEMINI_API_KEY, session, nchat, fn>>

\* Line 159: ai_response_text = get_ai_response(user_prompt, history)
Answered(q, res) ==
  [Traced(q, res.called, "post") EXCEPT !.pc = "save", !.ai_response_text = res.text,
                                        !.history = res.history, !.payload = res.payload]

ai(r, upstream) ==
  /\ req[r].pc = "ai"
  /\ req' = [req EXCEPT ![r] =
               Answered(req[r], get_ai_response(req[r].user_prompt, req[r].history,
                                                GEMINI_API_KEY, upstream))]
  /\ UNCHANGED <<store, conversation_table, GEMINI_API_KEY, session, nchat, fn>>

\* The answer carries the prompt instead of the reply that was saved.
Saved_echo(q, res) ==
  IF res.exc # "none"
    THEN Crash(Traced(q, res.wrote, "put_item"), res.exc)
    ELSE [Traced(q, res.wrote, "put_item") EXCEPT
            !.pc = "done",
            !.response = [status |-> 200, key |-> "response", text |-> q.user_prompt]]

\* Lines 167-169: after save_conversation_history, answer with the reply.
Saved(q, res) ==
  IF res.exc # "none"
    THEN Crash(Traced(q, res.wrote, "put_item"), res.exc)
    ELSE [Traced(q, res.wrote, "put_item") EXCEPT
            !.pc = "done",
            !.response = [status |-> 200, key |-> "response", text |-> q.ai_response_text]]

\* Lines 161-163: the list that was loaded now ends with the turn pair.
Appended(q) ==
  [q EXCEPT !.history = appendTurns(q.history, q.user_prompt, q.ai_response_text)]

SaveStep(r, q, res) ==
  /\ store' = res.table
  /\ req' = [req EXCEPT ![r] = Saved(q, res)]

SaveAppended(r, q, outcome) ==
  SaveStep(r, q, save_conversation_history(store, conversation_table, q.session_id,
                                           q.history, outcome))

\* Lines 161-169: append the turn pair, save, answer.
save(r, outcome) ==
  /\ req[r].pc = "save"
  /\ SaveAppended(r, Appended(req[r]), outcome)
  /\ UNCHANGED <<conversation_table, GEMINI_API_KEY, session, nchat, fn>>

\* The response has been sent; the handler's locals are gone.
finish(r) ==
  /\ req[r].pc = "done"
  /\ req' = [req EXCEPT ![r] = IdleReq]
  /\ UNCHANGED <<store, conversation_table, GEMINI_API_KEY, session, nchat, fn>>

Next ==
  \/ \E c \in Clients : home(c)
  \/ \E r \in Reqs, c \in Clients, data \in Bodies : chat(r, c, data)
  \/ \E r \in Reqs, outcome \in StoreOutcomes : load(r, outcome)
  \/ \E r \in Reqs, upstream \in UpstreamsShort : ai(r, upstream)
  \/ \E r \in Reqs, outcome \in StoreOutcomes : save(r, outcome)
  \/ \E r \in Reqs : finish(r)

Spec == Init /\ [][Next]_vars

\* ------------------------------------------------------------------------
\* One request at a time, the store always answering
\* ------------------------------------------------------------------------
InitSeq == Init /\ conversation_table = "Table"

chatSeq(r, c, data) ==
  /\ \A r2 \in Reqs : req[r2].pc = "idle"
  /\ chat(r, c, data)

NextSeq ==
  \/ \E c \in Clients : home(c)
  \/ \E r \in Reqs, c \in Clients, data \in Bodies : chatSeq(r, c, data)
  \/ \E r \in Reqs : load(r, "ok")
  \/ \E r \in Reqs, upstream \in Upstreams : ai(r, upstream)
  \/ \E r \in Reqs : save(r, "ok")
  \/ \E r \in Reqs : finish(r)

SpecSeq == InitSeq /\ [][NextSeq]_vars

\* ------------------------------------------------------------------------
\* One request at a time, the store and the generation service failing or not
\* ------------------------------------------------------------------------
NextOne ==
  \/ \E c \in Clients : home(c)
  \/ \E r \in Reqs, c \in Clients, data \in Bodies : chatSeq(r, c, data)
  \/ \E r \in Reqs, outcome \in StoreOutcomes : load(r, outcome)
  \/ \E r \in Reqs, upstream \in Upstreams : ai(r, upstream)
  \/ \E r \in Reqs, outcome \in StoreOutcomes : save(r, outcome)
  \/ \E r \in Reqs : finish(r)

SpecOne == Init /\ [][NextOne]_vars

\* ------------------------------------------------------------------------
\* The table is also written from outside the application
\* ------------------------------------------------------------------------
\* Items another writer can leave: ConversationData that is not JSON
\* (a truncated document), or an item without the attribute.
ForeignItems ==
  {[Item |-> TRUE, HasData |-> TRUE, ConversationData |-> <<"[", "{", QUOTE, "role">>],
   [Item |-> TRUE, HasData |-> FALSE, ConversationData |-> << >>]}

foreign_write(s, item) ==
  /\ fn.op = "none"
  /\ store[s] # item
  /\ store' = [store EXCEPT ![s] = item]
  /\ UNCHANGED <<conversation_table, GEMINI_API_KEY, session, req, nchat, fn>>

NextEnv ==
  \/ Next
  \/ \E s \in SessionIds, item \in ForeignItems : foreign_write(s, item)

SpecEnv == Init /\ [][NextEnv]_vars

\* ------------------------------------------------------------------------
\* Direct calls of the functions, on inputs drawn from bounded sets
\* ------------------------------------------------------------------------
Texts == {<< >>, <<"h", "i">>, <<QUOTE, BSLASH>>, <<"]", COMMA, BSLASH>>}
Turns == {Turn(role, Str(x)) : role \in {USER, MODEL}, x \in Texts}
Histories == UNION {[1..n -> Turns] : n \in 0..MaxLen}

\* Upstream response bodies: the expected shape, and at each level of the
\* path a missing key, an empty value or a value of another type.
Odd == {Null, Num(0), Num(7), Str(<< >>), Str(<<"x">>), List(<< >>), EmptyDict}
TextVals == Odd \cup {Str(<<"o", "k">>)}
PartVals == {Dict([text |-> x]) : x \in TextVals} \cup Odd
PartsVals == {List(<<x>>) : x \in PartVals} \cup Odd \cup {Dict([other |-> Null])}
ContentVals == {Dict([parts |-> x]) : x \in PartsVals} \cup Odd
CandidateVals == {Dict([content |-> x]) : x \in ContentVals} \cup Odd
CandidatesVals == {List(<<x>>) : x \in CandidateVals} \cup Odd \cup {Dict([other |-> Null])}
Results == {Dict([candidates |-> x]) : x \in CandidatesVals} \cup Odd \cup {Dict([other |-> Null])}

FnCall(op, h, p, r, result) ==
  [op |-> op, stage |-> "in", h |-> h, p |-> p, r |-> r, result |-> result,
   sid |-> "s1", saved |-> "none", loaded |-> "none", out |-> Null]

FnInputs ==
  {FnCall("appendTurns", h, Str(p), Str(r), Null) : h \in Histories, p \in Texts, r \in Texts}
  \cup {FnCall("buildRequest", h, Str(p), Null, Null) : h \in Histories, p \in Texts \ {<< >>}}
  \cup {FnCall("extractReply", << >>, Null, Null, x) : x \in Results}
  \cup {FnCall("save_load", h, Null, Null, Null) : h \in Histories}

InitFn ==
  /\ store = [s \in SessionIds |-> NoItem]
  /\ conversation_table = "Table"
  /\ GEMINI_API_KEY = TRUE
  /\ session = [c \in Clients |-> NoSession]
  /\ req = [r \in Reqs |-> IdleReq]
  /\ nchat = [s \in SessionIds |-> 0]
  /\ fn \in FnInputs

call_appendTurns ==
  /\ fn.op = "appendTurns" /\ fn.stage = "in"
  /\ fn' = [fn EXCEPT !.stage = "out", !.out = appendTurns(fn.h, fn.p, fn.r)]
  /\ UNCHANGED <<store, conversation_table, GEMINI_API_KEY, session, req, nchat>>

call_buildRequest ==
  /\ fn.op = "buildRequest" /\ fn.stage = "in"
  /\ fn' = [fn EXCEPT !.stage = "out", !.out = buildRequest(fn.p, fn.h)]
  /\ UNCHANGED <<store, conversation_table, GEMINI_API_KEY, session, req, nchat>>

call_extractReply ==
  /\ fn.op = "extractReply" /\ fn.stage = "in"
  /\ fn' = [fn EXCEPT !.stage = "out", !.out = extractReply(fn.result)]
  /\ UNCHANGED <<store, conversation_table, GEMINI_API_KEY, session, req, nchat>>

SaveCalled(res, outcome) ==
  /\ store' = res.table
  /\ fn' = [fn EXCEPT !.stage = "saved", !.saved = outcome]

call_save(outcome) ==
  /\ fn.op = "save_load" /\ fn.stage = "in"
  /\ SaveCalled(save_conversation_history(store, conversation_table, fn.sid, fn.h, outcome), outcome)
  /\ UNCHANGED <<conversation_table, GEMINI_API_KEY, session, req, nchat>>

call_load(outcome) ==
  /\ fn.op = "save_load" /\ fn.stage = "saved"
  /\ fn' = [fn EXCEPT !.stage = "out", !.loaded = outcome,
                      !.out = load_conversation_history(store, conversation_table, fn.sid, outcome)]
  /\ UNCHANGED <<store, conversation_table, GEMINI_API_KEY, session, req, nchat>>

NextFn ==
  \/ call_appendTurns
  \/ call_buildRequest
  \/ call_extractReply
  \/ \E outcome \in StoreOutcomes : call_save(outcome)
  \/ \E outcome \in StoreOutcomes : call_load(outcome)

SpecFn == InitFn /\ [][NextFn]_vars

\* ------------------------------------------------------------------------
\* Properties
\* ------------------------------------------------------------------------
InTrace(q, call) == \E i \in 1..Len(q.trace) : q.trace[i] = call
Calls(q, call) == Cardinality({i \in 1..Len(q.trace) : q.trace[i] = call})

\* The turns stored for a session, as a reader of the table sees them.
StoredTurns(s) ==
  IF store[s].Item /\ store[s].HasData THEN json_loads(store[s].ConversationData).v ELSE << >>

StoredUnparsable(s) ==
  store[s].Item /\ store[s].HasData /\ json_loads(store[s].ConversationData).exc # "none"

ApiTurn(role, text) == [role |-> role, parts |-> <<[text |-> text]>>]

\* The upstream call of the k-th request: 2(k-1) stored turns, then the prompt.
KthCall(q, stored, k) ==
  /\ Len(q.payload.contents) = 2 * (k - 1) + 1
  /\ Len(stored) >= 2 * (k - 1)
  /\ \A i \in 1..(2 * (k - 1)) : q.payload.contents[i] = ApiTurn(stored[i].role, stored[i].text)
  /\ q.payload.contents[2 * (k - 1) + 1] = ApiTurn(USER, q.user_prompt)

\* The store after the k-th request returned.
KthStore(q, stored, k) ==
  /\ Len(stored) = 2 * k
  /\ stored[2 * k - 1] = [role |-> USER, text |-> q.user_prompt]
  /\ stored[2 * k] = [role |-> MODEL, text |-> q.response.text]

KthRequest(q, stored, k) ==
  /\ k >= 1
  /\ InTrace(q, "post") => KthCall(q, stored, k)
  /\ q.pc = "save" => Len(stored) = 2 * (k - 1)
  /\ q.pc = "done" => KthStore(q, stored, k)

\* C1: with requests one after another and the store answering, the k-th
\* accepted request of a session calls the upstream with the 2(k-1) stored
\* turns followed by its prompt, and when it has returned the store holds 2k
\* turns ending with {user, prompt_k}, {model, reply_k}.
C1_KthRequestSeesAndStores ==
  \A r \in Reqs :
    (req[r].pc = "save" \/ (req[r].pc = "done" /\ req[r].response.status # 400))
      => KthRequest(req[r], StoredTurns(req[r].session_id), nchat[req[r].session_id])

C1_Witness ==
  \E r \in Reqs :
    /\ req[r].pc = "done" /\ req[r].response.status = 200
    /\ nchat[req[r].session_id] = 2
    /\ InTrace(req[r], "post")
    /\ Len(req[r].payload.contents) = 3
    /\ Len(StoredTurns(req[r].session_id)) = 4

\* C2: appendTurns(h, p, r) has length len(h)+2, keeps the elements of h in
\* order and ends with {user, p}, {model, r}.
C2_AppendTurns ==
  (fn.op = "appendTurns" /\ fn.stage = "out") =>
    /\ Len(fn.out) = Len(fn.h) + 2
    /\ \A i \in 1..Len(fn.h) : fn.out[i] = fn.h[i]
    /\ fn.out[Len(fn.h) + 1] = [role |-> USER, text |-> fn.p]
    /\ fn.out[Len(fn.h) + 2] = [role |-> MODEL, text |-> fn.r]

C2_Witness ==
  /\ fn.op = "appendTurns" /\ fn.stage = "out"
  /\ Len(fn.h) = 2 /\ Len(fn.out) = 4
  /\ fn.p # fn.r

\* C3: a save of a non-empty history that succeeds, followed by a load of the
\* same id that the store answers, returns the history that was saved.
C3_RoundTrip ==
  (fn.op = "save_load" /\ fn.stage = "out" /\ fn.saved = "ok" /\ fn.loaded = "ok"
     /\ fn.h # << >>)
    => (fn.out.exc = "none" /\ fn.out.v = fn.h)

C3_Witness ==
  /\ fn.op = "save_load" /\ fn.stage = "out" /\ fn.saved = "ok" /\ fn.loaded = "ok"
  /\ Len(fn.h) = 2
  /\ fn.h[1].text = Str(<<QUOTE, BSLASH>>)
  /\ fn.out.v = fn.h

\* C4: load never propagates a failure: whatever the read does and whatever
\* the stored payload is, the request goes on to the upstream call, with the
\* empty history when the read failed or the payload does not parse.
C4_LoadNeverPropagates ==
  [][\A r \in Reqs :
       (req[r].pc = "load" /\ req'[r] # req[r]) =>
         /\ req'[r].pc = "ai"
         /\ StoredUnparsable(req[r].session_id) => req'[r].history = << >>]_vars

\* A request without prompt, with the empty prompt, or without session id.
LacksField(q) == q.user_prompt = Null \/ q.user_prompt = Str(<< >>) \/ q.session_id = NoSession

\* C5: a POST /chat without prompt, with an empty prompt or without session
\* id is answered 400 {error} and reads nothing, calls nothing, writes nothing.
RejectedUntouched(q) ==
  /\ q.pc = "done"
  /\ q.response.status = 400 /\ q.response.key = "error"
  /\ q.trace = << >>

C6_AlwaysResponse ==
  \A r \in Reqs :
    (req[r].pc = "done" /\ ~LacksField(req[r]))
      => (req[r].response.status = 200 /\ req[r].response.key = "response")

\* The expected path, by the shape of the document.
IsList1(x) == x.t = "list" /\ Len(x.v) >= 1
HasKey(x, k) == x.t = "dict" /\ k \in DOMAIN x.v
HasParts(content) == HasKey(content, "parts") /\ IsList1(content.v.parts)
                       /\ HasKey(content.v.parts.v[1], "text")
HasContent(cand) == HasKey(cand, "content") /\ HasParts(cand.v.content)
HasPath(x) == HasKey(x, "candidates") /\ IsList1(x.v.candidates)
                /\ HasContent(x.v.candidates.v[1])
TextOf(x) == x.v.candidates.v[1].v.content.v.parts.v[1].v.text
IsText(x) == x.t = "str" /\ Len(x.v) > 0
Fallbacks == {Str(MSG_UNUSUAL), Str(MSG_UNREADABLE)}

\* C7 as stated: a response without the path (or with an empty or non-text
\* value at its end) gives the one fallback string of line 123; with the
\* path, its text.
C7_OneFallback ==
  (fn.op = "extractReply" /\ fn.stage = "out") =>
    IF HasPath(fn.result) /\ IsText(TextOf(fn.result))
      THEN fn.out = TextOf(fn.result)
      ELSE fn.out = Str(MSG_UNUSUAL)

\* C7 amended: a response without the path, or whose text is empty (falsy),
\* gives one of the two fallback strings (lines 123 and 130); a response with
\* the path and a non-empty (truthy) text value gives exactly that value.
C7_TwoFallbacks ==
  (fn.op = "extractReply" /\ fn.stage = "out") =>
    IF HasPath(fn.result) /\ Truthy(TextOf(fn.result))
      THEN fn.out = TextOf(fn.result)
      ELSE fn.out \in Fallbacks

C7_Witness ==
  /\ fn.op = "extractReply" /\ fn.stage = "out"
  /\ ~HasPath(fn.result)
  /\ HasKey(fn.result, "candidates")
  /\ fn.out = Str(MSG_UNREADABLE)

\* C8: when the write fails, the request still answers {response: reply},
\* the table is as before the save and put_item was called at most once.
SilentFailure(q1, q2) ==
  /\ q2.pc = "done"
  /\ q2.response = [status |-> 200, key |-> "response", text |-> q1.ai_response_text]
  /\ Calls(q2, "put_item") <= 1

C8_SaveFailsSilently ==
  [][\A r \in Reqs :
       (save(r, "ClientError") \/ save(r, "BotoCoreError"))
         => (SilentFailure(req[r], req'[r]) /\ store' = store)]_vars

\* C9: buildRequest(p, h) has len(h)+1 contents, the i-th with the role and
\* text of the i-th turn of h, the last the user turn with text p, and h is
\* left as it was.
C9_BuildRequest ==
  (fn.op = "buildRequest" /\ fn.stage = "out") =>
    /\ Len(fn.out.payload.contents) = Len(fn.h) + 1
    /\ \A i \in 1..Len(fn.h) :
         fn.out.payload.contents[i] = ApiTurn(fn.h[i].role, fn.h[i].text)
    /\ fn.out.payload.contents[Len(fn.h) + 1] = ApiTurn(USER, fn.p)
    /\ fn.out.history = fn.h

C9_Witness ==
  /\ fn.op = "buildRequest" /\ fn.stage = "out"
  /\ Len(fn.h) = 2 /\ fn.h[1].role = MODEL /\ fn.h[2].role = USER
  /\ Len(fn.out.payload.contents) = 3

\* C10: a load for a session id without item, when get_item answers (with
\* no item or with a ClientError), gives the empty history, raises nothing
\* and leaves the table as it was.
C10_LoadUnknownSession ==
  [][\A r \in Reqs :
       ((load(r, "ok") \/ load(r, "ClientError")) /\ ~store[req[r].session_id].Item)
         => (req'[r].pc = "ai" /\ req'[r].history = << >> /\ store' = store)]_vars

C10_Witness ==
  \E r \in Reqs :
    /\ req[r].pc = "ai" /\ req[r].history = << >>
    /\ InTrace(req[r], "get_item")
    /\ ~store[req[r].session_id].Item
    /\ \E s \in SessionIds : store[s].Item

\* The turns an item of table tbl holds.
StoredIn(tbl, s) ==
  IF tbl[s].Item /\ tbl[s].HasData THEN json_loads(tbl[s].ConversationData).v ELSE << >>

IsPrefix(a, b) == Len(a) <= Len(b) /\ \A i \in 1..Len(a) : a[i] = b[i]

\* Request q2 has answered 200 and its history is what the table holds for
\* the session of q, while q holds the history q2 had loaded: q loaded what
\* q2 loaded, and q2 saved first.
SavedFirst(q2, q) ==
  /\ q2.pc = "done" /\ q2.response.status = 200
  /\ q2.session_id = q.session_id
  /\ conversation_table = "Table"
  /\ StoredIn(store, q.session_id) = q2.history
  /\ Len(q2.history) = Len(q.history) + 2
  /\ IsPrefix(q.history, q2.history)

\* What the later save leaves: the common history and the later pair only.
LaterWins(q, q1, stored) ==
  /\ q1.pc = "done" /\ q1.response.status = 200
  /\ Len(stored) = Len(q.history) + 2
  /\ stored = q.history \o <<[role |-> USER, text |-> q.user_prompt],
                             [role |-> MODEL, text |-> q.ai_response_text]>>

\* C11: when two requests of a session have loaded the same history and one
\* has saved, the save of the other replaces the item by the common history
\* plus its own two turns: the turns of the first are no longer stored,
\* though both requests answered 200.
C11_LostUpdate ==
  [][\A r \in Reqs, r2 \in Reqs :
       (r # r2 /\ req[r].pc = "save" /\ SavedFirst(req[r2], req[r]) /\ save(r, "ok"))
         => LaterWins(req[r], req'[r], StoredIn(store', req[r].session_id))]_vars

C11_Witness ==
  \E r \in Reqs, r2 \in Reqs :
    /\ r # r2
    /\ req[r].pc = "done" /\ req[r].response.status = 200
    /\ req[r2].pc = "done" /\ req[r2].response.status = 200
    /\ req[r].session_id = req[r2].session_id
    /\ nchat[req[r].session_id] = 2
    /\ req[r].user_prompt # req[r2].user_prompt
    /\ Len(req[r].history) = 2 /\ Len(req[r2].history) = 2
    /\ StoredIn(store, req[r].session_id) = req[r].history

\* C12: with requests of a session one after another, whatever fails, each
\* stored history extends the one stored before it.
C12_StoredOnlyGrows ==
  [][\A s \in SessionIds : IsPrefix(StoredIn(store, s), StoredIn(store', s))]_vars

\* user, model, user, model, ...: complete pairs only.
Alternating(h) ==
  /\ Len(h) % 2 = 0
  /\ \A i \in 1..Len(h) : h[i].role = IF i % 2 = 1 THEN USER ELSE MODEL

\* C13: in every reachable state the stored history of each session has even
\* length and its roles alternate user, model, starting with user.
C13_StoredPairs ==
  \A s \in SessionIds : ~StoredUnparsable(s) /\ Alternating(StoredTurns(s))

C13_Witness ==
  \E s \in SessionIds, r \in Reqs :
    /\ Len(StoredTurns(s)) = 4
    /\ StoredTurns(s)[2].text = Str(MSG_NETWORK)
    /\ req[r].pc = "done" /\ req[r].session_id = s
    /\ req[r].response.status = 200

\* The store and upstream calls a handler has made when it sends its response:
\* one read, at most one upstream call, one write, in this order.
FullAttempt(q) ==
  q.trace \in {<<"get_item", "post", "put_item">>, <<"get_item", "put_item">>}

\* C14: with the table configured, an accepted request has read the store
\* exactly once before its upstream call, calls upstream at most once, and
\* answers only after exactly one write that follows the upstream call.
C14_SingleAttempt ==
  \A r \in Reqs :
    conversation_table = "Table" =>
      /\ req[r].pc = "ai" => req[r].trace = <<"get_item">>
      /\ req[r].pc = "save" => req[r].trace \in {<<"get_item">>, <<"get_item", "post">>}
      /\ (req[r].pc = "done" /\ ~LacksField(req[r])) => FullAttempt(req[r])

\* C15: a client's session id changes only in a GET / of that client that
\* finds none; once assigned no GET / and no POST /chat step changes it.
C15_SessionIdStable ==
  [][\A c \in Clients :
       session'[c] # session[c] => (session[c] = NoSession /\ home(c))]_vars

C15_Witness ==
  \E c \in Clients, r \in Reqs :
    /\ session[c] # NoSession
    /\ nchat[session[c]] = 2
    /\ req[r].pc = "done" /\ req[r].response.status = 200
    /\ req[r].session_id = session[c]
    /\ Len(req[r].history) = 4

\* What a load step of request q hands to the handler: nothing, or the turns
\* held under q's own session id.
ReadsOwnRecord(q, q1) ==
  (q.pc = "load" /\ q1.pc = "ai") => q1.history \in {<< >>, StoredIn(store, q.session_id)}

\* What an upstream step of request q sends: the turns it loaded, then its prompt.
SendsOwnHistory(q, q1) ==
  (q.pc = "ai" /\ InTrace(q1, "post")) =>
    q1.payload.contents = Append(api_history_of(q.history), ApiTurn(USER, q.user_prompt))

\* C16: a request of session A is handed only the record keyed by A, sends
\* upstream only the turns it was handed, and a step changes the record of a
\* session only if it is the save step of a request of that session.
C16_SessionIsolation ==
  [][/\ \A r \in Reqs : ReadsOwnRecord(req[r], req'[r]) /\ SendsOwnHistory(req[r], req'[r])
     /\ \A s \in SessionIds :
          store'[s] # store[s] =>
            \E r \in Reqs : /\ req[r].pc = "save" /\ req'[r].pc = "done"
                            /\ req[r].session_id = s]_vars

C16_Witness ==
  \E r, r2 \in Reqs :
    /\ req[r].session_id = "s2" /\ req[r2].session_id = "s1"
    /\ req[r].pc = "done" /\ req[r].response.status = 200
    /\ req[r2].pc = "done" /\ req[r2].response.status = 200
    /\ InTrace(req[r], "post") /\ Len(req[r].payload.contents) = 1
    /\ StoredIn(store, "s1") = req[r2].history
    /\ StoredIn(store, "s2") = req[r].history
    /\ Len(req[r].history) = 2
    /\ req[r].history # req[r2].history

\* The degraded replies of get_ai_response.
Degraded == {Str(MSG_NO_KEY), Str(MSG_NETWORK), Str(MSG_UNUSUAL), Str(MSG_UNREADABLE)}

\* Request q has answered 200 and stored holds its session's turns: the
\* answer is the text of the last turn, a model turn, of the history q saved,
\* and the upstream call q made carried every turn stored before it.
ReplySaved(q, stored) ==
  /\ q.response.key = "response"
  /\ Len(q.history) >= 2
  /\ q.history[Len(q.history) - 1] = Turn(USER, q.user_prompt)
  /\ q.history[Len(q.history)] = Turn(MODEL, q.response.text)
  /\ stored = q.history
  /\ InTrace(q, "post") =>
       /\ Len(q.payload.contents) = Len(stored) - 1
       /\ \A i \in 1..(Len(stored) - 2) :
            q.payload.contents[i] = ApiTurn(stored[i].role, stored[i].text)

\* Request q sent upstream every turn that was stored before its own pair.
SentAllStored(q, stored) ==
  \A i \in 1..(Len(stored) - 2) :
    /\ i <= Len(q.payload.contents)
    /\ q.payload.contents[i] = ApiTurn(stored[i].role, stored[i].text)

====
